---- MODULE Spec2Model ----
(***************************************************************************)
(* Model of the k8s-go-sdk-examples programs:                              *)
(*   k8s/pods/watcher/main.go   the pod watcher (CrashLoopBackOff filter)  *)
(*   k8s/deployments/main.go    create/get/list/update/scale/delete        *)
(*   the DeploymentConfig program and the MachineSet scaling program.      *)
(* A run is one execution of one program (or one call of one function) in  *)
(* its own process against its own cluster; every variable is a function   *)
(* of the run.                                                             *)
(***************************************************************************)
EXTENDS Integers, Sequences, FiniteSets

VARIABLES
    prog,      \* prog[r]: the program (or the function under call) run r executes
    pc,        \* pc[r]: position of run r in its main
    exitCode,  \* exitCode[r]: Nil while the process lives, else Ptr(its exit status)
    out,       \* out[r]: the lines printed so far (standard output and error)
    reqs,      \* reqs[r]: the API requests issued so far, with their results
    ninv,      \* ninv[r]: number of operations (function calls) started
    cluster,   \* cluster[r]: the workload resource the program manages
    chan,      \* chan[r]: events in the watch's result channel
    closed,    \* closed[r]: the producer has closed the result channel
    emitted,   \* emitted[r]: number of events the producer has sent
    consumed,  \* consumed[r]: number of loop iterations done
    stream,    \* stream[r]: the events the loop has received, in order
    event,     \* event[r]: the loop variable `event` of the last iteration
    lines,     \* lines[r]: the lines the last iteration printed
    replica,   \* replica[r]: ScaleDeployment's parameter `replica` (int32)
    scale,     \* scale[r]: ScaleDeploymentConfig's parameter `scale` (int)
    sd,        \* sd[r]: ScaleDeployment's local copy of the scale object
    items,     \* items[r]: number of MachineSets the list returned
    idx        \* idx[r]: MachineSets handled so far by the range loop

vars == <<prog, pc, exitCode, out, reqs, ninv, cluster, chan, closed, emitted,
          consumed, stream, event, lines, replica, scale, sd, items, idx>>

\* ------------------------------------------------------------------ bounds

\* Longest watch stream the producer emits.
MaxEvents == 2
\* Capacity of the watch's result channel.
ChanCap == 1
\* Largest number of MachineSets a list returns.
MaxMachineSets == 2
\* Largest replica count of a Deployment in the cluster.
MaxReplicas == 2

Runs == {1, 2}

Set(f, r, v) == [f EXCEPT ![r] = v]

\* ------------------------------------------------------------ watch events

\* A nil pointer is the empty sequence, a pointer to a struct a one-element one.
Nil == <<>>
Ptr(x) == <<x>>

StateRunning == [waiting |-> Nil, running |-> Ptr([startedAt |-> "t0"]), terminated |-> Nil]
StateWaiting(reason) == [waiting |-> Ptr([reason |-> reason]), running |-> Nil, terminated |-> Nil]
StateTerminated(reason) == [waiting |-> Nil, running |-> Nil, terminated |-> Ptr([reason |-> reason])]

ContainerStatus(name, state) == [name |-> name, state |-> state]

Pod(name, namespace, phase, statuses) ==
    [kind |-> "Pod", name |-> name, namespace |-> namespace, phase |-> phase,
     containerStatuses |-> statuses]

\* The object an ERROR event carries: a *metav1.Status, not a *corev1.Pod.
StatusObject == [kind |-> "Status", name |-> "", namespace |-> "", phase |-> "",
                 containerStatuses |-> <<>>]

WatchEvent(type, object) == [type |-> type, object |-> object]

Events ==
    { WatchEvent("ERROR", StatusObject),
      WatchEvent("MODIFIED", Pod("api-7f", "prod", "Running",
          <<ContainerStatus("api", StateWaiting("CrashLoopBackOff"))>>)),
      WatchEvent("DELETED", Pod("api-7f", "prod", "Running",
          <<ContainerStatus("api", StateWaiting("CrashLoopBackOff"))>>)),
      WatchEvent("ADDED", Pod("web-1", "dev", "Running",
          <<ContainerStatus("web", StateRunning)>>)),
      WatchEvent("DELETED", Pod("db-0", "prod", "Pending",
          <<ContainerStatus("db", StateWaiting("CrashLoopBackOff")),
            ContainerStatus("init", StateRunning),
            ContainerStatus("sidecar", StateWaiting("CrashLoopBackOff"))>>)),
      WatchEvent("MODIFIED", Pod("job-9", "dev", "Failed",
          <<ContainerStatus("pull", StateWaiting("ImagePullBackOff")),
            ContainerStatus("old", StateTerminated("CrashLoopBackOff")),
            ContainerStatus("case", StateWaiting("crashloopbackoff"))>>)),
      WatchEvent("ADDED", Pod("empty", "dev", "Pending", <<>>)) }

NoEvent == WatchEvent("", StatusObject)

\* ------------------------------------------------------------------ output

Info(text) == <<"info", text>>
Error(text) == <<"error", text>>
PodLine(pod) == <<"PodName", pod.name, "Namespace", pod.namespace, "Phase", pod.phase>>

IsErrorLine(l) == l[1] = "error"

\* ---------------------------------------------------------------- requests

Request(inv, fn, op, ok, value) ==
    [inv |-> inv, fn |-> fn, op |-> op, ok |-> ok, value |-> value]

NoValue == <<>>

\* Run r issues request op, as part of its inv-th operation fn.
Issue(r, inv, fn, op, ok, value) ==
    reqs' = Set(reqs, r, Append(reqs[r], Request(inv, fn, op, ok, value)))

\* -------------------------------------------------------------- process end

watchVars == <<chan, closed, emitted, consumed, stream, event, lines>>
callVars == <<replica, scale, sd, items, idx>>

Stdout(r, ls) == out' = Set(out, r, out[r] \o ls)

\* os.Exit(code), log.Fatal (code 1), an uncaught panic (code 2) or main returning
\* (code 0): the process ends.
Exit(r, code) ==
    /\ exitCode' = Set(exitCode, r, Ptr(code))
    /\ pc' = Set(pc, r, "exited")

Goto(r, label) ==
    /\ pc' = Set(pc, r, label)
    /\ UNCHANGED exitCode

\* What log.Fatal(err.Error) prints: the method value, not the message.
FatalMethodValue == <<"fatal", "err.Error method value">>

\* ------------------------------------------------------------------- setup

\* The first API step of each program, after the client is built.
FirstStep(p) ==
    CASE p = "watcher" -> "Watch"
      [] p = "deployments" -> "CreateDeployment"
      [] p = "deploymentconfigs" -> "CreateDeploymentConfig"
      [] p = "machinesets" -> "ListMachineSets"

UserHomeDir(r) ==
    /\ pc[r] = "UserHomeDir"
    /\ \E ok \in BOOLEAN :
         IF ok
         THEN /\ Stdout(r, <<Info("Using kubeconfig")>>)
              /\ Goto(r, "BuildConfigFromFlags")
         ELSE /\ Stdout(r, <<Error("error getting user home dir")>>)
              /\ Exit(r, 1)
    /\ UNCHANGED <<prog, reqs, ninv, cluster, watchVars, callVars>>

BuildConfigFromFlags(r) ==
    /\ pc[r] = "BuildConfigFromFlags"
    /\ \E ok \in BOOLEAN :
         IF ok
         THEN /\ UNCHANGED out
              /\ Goto(r, "NewForConfig")
         ELSE /\ Stdout(r, IF prog[r] = "watcher"
                          THEN <<Error("Error getting kubernetes config")>>
                          ELSE <<FatalMethodValue>>)
              /\ Exit(r, 1)
    /\ UNCHANGED <<prog, reqs, ninv, cluster, watchVars, callVars>>

NewForConfig(r) ==
    /\ pc[r] = "NewForConfig"
    /\ \E ok \in BOOLEAN :
         IF ok
         THEN /\ Stdout(r, IF prog[r] = "watcher" THEN <<>> ELSE <<Info("%T")>>)
              /\ Goto(r, FirstStep(prog[r]))
         ELSE /\ Stdout(r, CASE prog[r] = "watcher" ->
                                  <<Error("error getting kubernetes config")>>
                            [] prog[r] = "deployments" -> <<FatalMethodValue>>
                            [] OTHER -> <<Info("%T"), FatalMethodValue>>)
              /\ Exit(r, 1)
    /\ UNCHANGED <<prog, reqs, ninv, cluster, watchVars, callVars>>

\* ----------------------------------------------------------------- watcher

\* event.Object.(*corev1.Pod): ok exactly when the object is a Pod.
IsPod(object) == object.kind = "Pod"

\* Mutant of ContainerMatches: the reason is not compared.
ContainerMatchesAnyWaiting(c) == c.state.waiting /= Nil

ContainerMatches(c) ==
    c.state.waiting /= Nil /\ c.state.waiting[1].reason = "CrashLoopBackOff"

\* for _, c := range pod.Status.ContainerStatuses { if ... { Printf } }
RECURSIVE ContainerLines(_, _)
ContainerLines(pod, statuses) ==
    IF statuses = <<>> THEN <<>>
    ELSE (IF ContainerMatches(Head(statuses)) THEN <<PodLine(pod)>> ELSE <<>>)
         \o ContainerLines(pod, Tail(statuses))

\* The body of the range loop for one event.
LoopBody(e) ==
    IF ~IsPod(e.object) THEN <<>>
    ELSE ContainerLines(e.object, e.object.containerStatuses)

Watch(r) ==
    /\ pc[r] = "Watch"
    /\ ninv' = Set(ninv, r, ninv[r] + 1)
    /\ \E ok \in BOOLEAN :
         /\ Issue(r, ninv[r] + 1, "main", "Watch", ok, NoValue)
         /\ IF ok
            THEN /\ Stdout(r, <<Info("Watch Kubernetes Pods in CrashLoopBackOff state")>>)
                 /\ Goto(r, "range")
            ELSE /\ Stdout(r, <<Info("Watch Kubernetes Pods in CrashLoopBackOff state"),
                               Error("error create pod watcher")>>)
                 /\ Exit(r, 0)
    /\ UNCHANGED <<prog, cluster, watchVars, callVars>>

\* The producer (the API server's watch) sends one more event.
Emit(r) ==
    /\ pc[r] = "range"
    /\ ~closed[r]
    /\ Len(chan[r]) < ChanCap
    /\ emitted[r] < MaxEvents
    /\ \E e \in Events : chan' = Set(chan, r, Append(chan[r], e))
    /\ emitted' = Set(emitted, r, emitted[r] + 1)
    /\ UNCHANGED <<prog, pc, exitCode, out, reqs, ninv, cluster, closed, consumed,
                   stream, event, lines, callVars>>

\* The producer closes the result channel.
Close(r) ==
    /\ pc[r] = "range"
    /\ ~closed[r]
    /\ closed' = Set(closed, r, TRUE)
    /\ UNCHANGED <<prog, pc, exitCode, out, reqs, ninv, cluster, chan, emitted,
                   consumed, stream, event, lines, callVars>>

\* Mutant of RangeNext: a pod already reported is not reported again.
RangeNextOncePerPod(r) ==
    /\ pc[r] = "range"
    /\ chan[r] /= <<>>
    /\ event' = Set(event, r, Head(chan[r]))
    /\ chan' = Set(chan, r, Tail(chan[r]))
    /\ lines' = Set(lines, r,
          SelectSeq(LoopBody(Head(chan[r])),
                    LAMBDA l : \A i \in DOMAIN out[r] : out[r][i] /= l))
    /\ Stdout(r, lines'[r])
    /\ consumed' = Set(consumed, r, consumed[r] + 1)
    /\ stream' = Set(stream, r, Append(stream[r], Head(chan[r])))
    /\ UNCHANGED <<prog, pc, exitCode, reqs, ninv, cluster, closed, emitted, callVars>>

\* Mutant of RangeNext: the type assertion has no `ok` check, and an object that
\* is not a Pod panics.
RangeNextPanics(r) ==
    /\ pc[r] = "range"
    /\ chan[r] /= <<>>
    /\ event' = Set(event, r, Head(chan[r]))
    /\ chan' = Set(chan, r, Tail(chan[r]))
    /\ lines' = Set(lines, r,
          IF IsPod(Head(chan[r]).object) THEN LoopBody(Head(chan[r]))
          ELSE <<Error("panic: interface conversion")>>)
    /\ Stdout(r, lines'[r])
    /\ IF IsPod(Head(chan[r]).object) THEN UNCHANGED <<pc, exitCode>> ELSE Exit(r, 2)
    /\ consumed' = Set(consumed, r, consumed[r] + 1)
    /\ stream' = Set(stream, r, Append(stream[r], Head(chan[r])))
    /\ UNCHANGED <<prog, reqs, ninv, cluster, closed, emitted, callVars>>

\* One iteration of `for event := range watcher.ResultChan()`.
RangeNext(r) ==
    /\ pc[r] = "range"
    /\ chan[r] /= <<>>
    /\ event' = Set(event, r, Head(chan[r]))
    /\ chan' = Set(chan, r, Tail(chan[r]))
    /\ lines' = Set(lines, r, LoopBody(Head(chan[r])))
    /\ Stdout(r, lines'[r])
    /\ consumed' = Set(consumed, r, consumed[r] + 1)
    /\ stream' = Set(stream, r, Append(stream[r], Head(chan[r])))
    /\ UNCHANGED <<prog, pc, exitCode, reqs, ninv, cluster, closed, emitted, callVars>>

\* Mutant of RangeDone: the loop ends as soon as no event is waiting.
RangeDoneWhenEmpty(r) ==
    /\ pc[r] = "range"
    /\ chan[r] = <<>>
    /\ Exit(r, 0)
    /\ UNCHANGED <<prog, out, reqs, ninv, cluster, watchVars, callVars>>

\* The channel is closed and drained: the range loop ends and main returns.
RangeDone(r) ==
    /\ pc[r] = "range"
    /\ chan[r] = <<>>
    /\ closed[r]
    /\ Exit(r, 0)
    /\ UNCHANGED <<prog, out, reqs, ninv, cluster, watchVars, callVars>>

\* ------------------------------------------------------- integers (Go int)

\* Integers beyond the 32 bits of TLC's own are pairs <<hi, lo>> that stand for
\* hi * 2^16 + lo, with 0 <= lo < 2^16.
Base == 2 ^ 16

GoInt(hi, lo) == <<hi, lo>>

\* Mutant of Uint32: a value out of range is clamped to the nearest bound.
Uint32Saturating(x) ==
    IF x[1] < 0 THEN GoInt(0, 0)
    ELSE IF x[1] >= Base THEN GoInt(Base - 1, Base - 1)
    ELSE x

\* uint32(x): x modulo 2^32.
Uint32(x) == GoInt(x[1] % Base, x[2])

\* ------------------------------------------------------------- deployments

HttpdImage == "docker.io/httpd:latest"
NginxImage == "docker.io/nginx:latest"

\* Requests on a named resource fail when it is absent; any request may fail.
Results(r) == IF cluster[r].exists THEN BOOLEAN ELSE {FALSE}

Enter(r) == ninv' = Set(ninv, r, ninv[r] + 1)

\* The function main calls after ScaleDeployment returns.
AfterScaleDeployment(r) ==
    IF prog[r] = "deployments" THEN "DeleteDeployment" ELSE "returned"

CreateDeployment(r) ==
    /\ pc[r] = "CreateDeployment"
    /\ Enter(r)
    /\ \E ok \in BOOLEAN :
         /\ Issue(r, ninv[r] + 1, "CreateDeployment", "Create", ok, NoValue)
         /\ IF ok
            THEN /\ cluster' = Set(cluster, r,
                        [exists |-> TRUE, replicas |-> 1, image |-> HttpdImage])
                 /\ Stdout(r, <<Info("Creating deployment..."), Info("Created deployment")>>)
                 /\ Goto(r, "GetDeployment")
            ELSE /\ UNCHANGED cluster
                 /\ Stdout(r, <<Info("Creating deployment..."), Error("log.Fatal(err)")>>)
                 /\ Exit(r, 1)
    /\ UNCHANGED <<prog, watchVars, callVars>>

\* Mutant of GetDeployment: the deployments are listed before the get.
GetDeploymentAfterList(r) ==
    /\ pc[r] = "GetDeployment"
    /\ Enter(r)
    /\ \E ok \in Results(r) :
         /\ reqs' = Set(reqs, r, reqs[r] \o
                <<Request(ninv[r] + 1, "GetDeployment", "List", TRUE, NoValue),
                  Request(ninv[r] + 1, "GetDeployment", "Get", ok, NoValue)>>)
         /\ IF ok
            THEN /\ Stdout(r, <<Info("Get Deployment in namespace"), Info("%v")>>)
                 /\ Goto(r, "ListDeployment")
            ELSE /\ Stdout(r, <<Info("Get Deployment in namespace"),
                               Error("Failed to getting Deployment"),
                               Error("log.Fatal(err)")>>)
                 /\ Exit(r, 1)
    /\ UNCHANGED <<prog, cluster, watchVars, callVars>>

GetDeployment(r) ==
    /\ pc[r] = "GetDeployment"
    /\ Enter(r)
    /\ \E ok \in Results(r) :
         /\ Issue(r, ninv[r] + 1, "GetDeployment", "Get", ok, NoValue)
         /\ IF ok
            THEN /\ Stdout(r, <<Info("Get Deployment in namespace"), Info("%v")>>)
                 /\ Goto(r, "ListDeployment")
            ELSE /\ Stdout(r, <<Info("Get Deployment in namespace"),
                               Error("Failed to getting Deployment"),
                               Error("log.Fatal(err)")>>)
                 /\ Exit(r, 1)
    /\ UNCHANGED <<prog, cluster, watchVars, callVars>>

\* Mutant of ListDeployment: a failed list is tried once more.
ListDeploymentRetry(r) ==
    /\ pc[r] = "ListDeployment"
    /\ Enter(r)
    /\ \E ok \in BOOLEAN :
         /\ reqs' = Set(reqs, r, reqs[r] \o
                <<Request(ninv[r] + 1, "ListDeployment", "List", FALSE, NoValue),
                  Request(ninv[r] + 1, "ListDeployment", "List", ok, NoValue)>>)
         /\ IF ok
            THEN /\ Stdout(r, <<Info("List Deployments"), Info("%s")>>)
                 /\ Goto(r, "UpdateDeployment")
            ELSE /\ Stdout(r, <<Info("List Deployments"),
                               Error("error listing deployments"),
                               Error("log.Fatal(err)")>>)
                 /\ Exit(r, 1)
    /\ UNCHANGED <<prog, cluster, watchVars, callVars>>

ListDeployment(r) ==
    /\ pc[r] = "ListDeployment"
    /\ Enter(r)
    /\ \E ok \in BOOLEAN :
         /\ Issue(r, ninv[r] + 1, "ListDeployment", "List", ok, NoValue)
         /\ IF ok
            THEN /\ Stdout(r, <<Info("List Deployments"), Info("%s")>>)
                 /\ Goto(r, "UpdateDeployment")
            ELSE /\ Stdout(r, <<Info("List Deployments"),
                               Error("error listing deployments"),
                               Error("log.Fatal(err)")>>)
                 /\ Exit(r, 1)
    /\ UNCHANGED <<prog, cluster, watchVars, callVars>>

\* Mutant of UpdateDeployment: a failed patch is printed, not panicked on.
UpdateDeploymentNoPanic(r) ==
    /\ pc[r] = "UpdateDeployment"
    /\ Enter(r)
    /\ \E ok \in Results(r) :
         /\ Issue(r, ninv[r] + 1, "UpdateDeployment", "Patch", ok, NginxImage)
         /\ IF ok
            THEN /\ cluster' = Set(cluster, r, [cluster[r] EXCEPT !.image = NginxImage])
                 /\ Stdout(r, <<Info("Updating Deployment"),
                               Info("Successfully update image for Deployment")>>)
            ELSE /\ UNCHANGED cluster
                 /\ Stdout(r, <<Info("Updating Deployment"),
                               Error("[x] Error Update Deployment Image")>>)
         /\ Goto(r, "ScaleDeployment")
    /\ UNCHANGED <<prog, watchVars, callVars>>

UpdateDeployment(r) ==
    /\ pc[r] = "UpdateDeployment"
    /\ Enter(r)
    /\ \E ok \in Results(r) :
         /\ Issue(r, ninv[r] + 1, "UpdateDeployment", "Patch", ok, NginxImage)
         /\ IF ok
            THEN /\ cluster' = Set(cluster, r, [cluster[r] EXCEPT !.image = NginxImage])
                 /\ Stdout(r, <<Info("Updating Deployment"),
                               Info("Successfully update image for Deployment")>>)
                 /\ Goto(r, "ScaleDeployment")
            ELSE /\ UNCHANGED cluster
                 /\ Stdout(r, <<Info("Updating Deployment"),
                               Error("panic: [x] Error Update Deployment Image")>>)
                 /\ Exit(r, 2)
    /\ UNCHANGED <<prog, watchVars, callVars>>

\* Mutant of NoChanges: a negative count is not caught.
NoChangesWhenEqual(current, requested) == current = requested

\* sd.Spec.Replicas == replica || replica < 0
NoChanges(current, requested) == current = requested \/ requested < 0

\* ScaleDeployment up to its first request, GetScale, and the comparison.
ScaleDeployment(r) ==
    /\ pc[r] = "ScaleDeployment"
    /\ Enter(r)
    /\ \E ok \in Results(r) :
         /\ Issue(r, ninv[r] + 1, "ScaleDeployment", "GetScale", ok, cluster[r].replicas)
         /\ IF ~ok
            THEN /\ Stdout(r, <<Error("error getting scale object")>>)
                 /\ Exit(r, 1)
                 /\ UNCHANGED sd
            ELSE IF NoChanges(cluster[r].replicas, replica[r])
            THEN /\ Stdout(r, <<Info("no changes applied")>>)
                 /\ Goto(r, AfterScaleDeployment(r))
                 /\ sd' = Set(sd, r, cluster[r].replicas)
            ELSE /\ Stdout(r, <<IF cluster[r].replicas > replica[r]
                                THEN Info("Scale down Deployment")
                                ELSE Info("Scale Up Deployment")>>)
                 /\ Goto(r, "UpdateScale")
                 /\ sd' = Set(sd, r, replica[r])
    /\ UNCHANGED <<prog, cluster, watchVars, replica, scale, items, idx>>

\* ScaleDeployment from its second request, UpdateScale, to its return.
UpdateScale(r) ==
    /\ pc[r] = "UpdateScale"
    /\ \E ok \in Results(r) :
         /\ Issue(r, ninv[r], "ScaleDeployment", "UpdateScale", ok, sd[r])
         /\ IF ok
            THEN /\ cluster' = Set(cluster, r, [cluster[r] EXCEPT !.replicas = sd[r]])
                 /\ Stdout(r, <<Info("Successfully scaled deployment")>>)
                 /\ Goto(r, AfterScaleDeployment(r))
            ELSE /\ UNCHANGED cluster
                 /\ Stdout(r, <<Error("error updating scale object")>>)
                 /\ Exit(r, 1)
    /\ UNCHANGED <<prog, ninv, watchVars, callVars>>

DeleteDeployment(r) ==
    /\ pc[r] = "DeleteDeployment"
    /\ Enter(r)
    /\ \E ok \in Results(r) :
         /\ Issue(r, ninv[r] + 1, "DeleteDeployment", "Delete", ok, NoValue)
         /\ IF ok
            THEN /\ cluster' = Set(cluster, r, [cluster[r] EXCEPT !.exists = FALSE])
                 /\ Stdout(r, <<Info("Deleting Deployment"),
                               Info("Successfully deleted Deployment")>>)
                 /\ Exit(r, 0)
            ELSE /\ UNCHANGED cluster
                 /\ Stdout(r, <<Info("Deleting Deployment"), Error("log.Fatal(err)")>>)
                 /\ Exit(r, 1)
    /\ UNCHANGED <<prog, watchVars, callVars>>

\* ------------------------------------------------------- deploymentconfigs

AfterScaleDeploymentConfig(r) ==
    IF prog[r] = "deploymentconfigs" THEN "DeleteDeploymentConfig" ELSE "returned"

CreateDeploymentConfig(r) ==
    /\ pc[r] = "CreateDeploymentConfig"
    /\ Enter(r)
    /\ \E ok \in BOOLEAN :
         /\ Issue(r, ninv[r] + 1, "CreateDeploymentConfig", "Create", ok, NoValue)
         /\ IF ok
            THEN /\ cluster' = Set(cluster, r,
                        [exists |-> TRUE, replicas |-> GoInt(0, 1), image |-> HttpdImage])
                 /\ Stdout(r, <<Info("Creating new DeploymentConfig"),
                               Info("Successfully created deploymentconfig")>>)
                 /\ Goto(r, "ListDeploymentConfigs")
            ELSE /\ UNCHANGED cluster
                 /\ Stdout(r, <<Info("Creating new DeploymentConfig"),
                               Error("log.Fatal([x] Error creating DC)")>>)
                 /\ Exit(r, 1)
    /\ UNCHANGED <<prog, watchVars, callVars>>

ListDeploymentConfigs(r) ==
    /\ pc[r] = "ListDeploymentConfigs"
    /\ Enter(r)
    /\ \E ok \in BOOLEAN :
         /\ Issue(r, ninv[r] + 1, "ListDeploymentConfigs", "List", ok, NoValue)
         /\ IF ok
            THEN /\ Stdout(r, <<Info("Listing DeploymentConifgs"), Info("%s")>>)
                 /\ Goto(r, "UpdateDeploymentConfigImage")
            ELSE /\ Stdout(r, <<Info("Listing DeploymentConifgs"),
                               Error("log.Fatal([x] error listing RC/DC)")>>)
                 /\ Exit(r, 1)
    /\ UNCHANGED <<prog, cluster, watchVars, callVars>>

UpdateDeploymentConfigImage(r) ==
    /\ pc[r] = "UpdateDeploymentConfigImage"
    /\ Enter(r)
    /\ \E ok \in Results(r) :
         /\ Issue(r, ninv[r] + 1, "UpdateDeploymentConfigImage", "Patch", ok, NginxImage)
         /\ IF ok
            THEN /\ cluster' = Set(cluster, r, [cluster[r] EXCEPT !.image = NginxImage])
                 /\ Stdout(r, <<Info("Updating DeploymentConfig"),
                               Info("Successfully update image for deploymentconfig")>>)
                 /\ Goto(r, "ScaleDeploymentConfig")
            ELSE /\ UNCHANGED cluster
                 /\ Stdout(r, <<Info("Updating DeploymentConfig"),
                               Error("panic: [x] Error Update DC Image")>>)
                 /\ Exit(r, 2)
    /\ UNCHANGED <<prog, watchVars, callVars>>

\* []integerPatch{{Op: "replace", Path: "/spec/replicas", Value: value}}
IntegerPatch(value) == [op |-> "replace", path |-> "/spec/replicas", value |-> value]

\* The payload ScaleDeploymentConfig builds for its parameter `scale`.
ScalePayload(x) == IntegerPatch(Uint32(x))

ScaleDeploymentConfig(r) ==
    /\ pc[r] = "ScaleDeploymentConfig"
    /\ Enter(r)
    /\ \E ok \in Results(r) :
         /\ Issue(r, ninv[r] + 1, "ScaleDeploymentConfig", "Patch", ok, ScalePayload(scale[r]))
         /\ IF ok
            THEN /\ cluster' = Set(cluster, r,
                        [cluster[r] EXCEPT !.replicas = ScalePayload(scale[r]).value])
                 /\ Stdout(r, <<Info("Scaling DeploymentConfig"),
                               Info("Successfully scaled deploymentconfig")>>)
                 /\ Goto(r, AfterScaleDeploymentConfig(r))
            ELSE /\ UNCHANGED cluster
                 /\ Stdout(r, <<Info("Scaling DeploymentConfig"),
                               Error("panic: [x] Error Scaling DC Image")>>)
                 /\ Exit(r, 2)
    /\ UNCHANGED <<prog, watchVars, callVars>>

DeleteDeploymentConfig(r) ==
    /\ pc[r] = "DeleteDeploymentConfig"
    /\ Enter(r)
    /\ \E ok \in Results(r) :
         /\ Issue(r, ninv[r] + 1, "DeleteDeploymentConfig", "Delete", ok, NoValue)
         /\ IF ok
            THEN /\ cluster' = Set(cluster, r, [cluster[r] EXCEPT !.exists = FALSE])
                 /\ Stdout(r, <<Info("Deleting DeploymentConfig"),
                               Info("Successfully deleted deploymentconfig")>>)
                 /\ Exit(r, 0)
            ELSE /\ UNCHANGED cluster
                 /\ Stdout(r, <<Info("Deleting DeploymentConfig"),
                               Error("log.Fatal([x] error deleting DC)")>>)
                 /\ Exit(r, 1)
    /\ UNCHANGED <<prog, watchVars, callVars>>

\* -------------------------------------------------------------- machinesets

ListMachineSets(r) ==
    /\ pc[r] = "ListMachineSets"
    /\ Enter(r)
    /\ \E res \in {"ok", "NotFound", "error"} :
         /\ Issue(r, ninv[r] + 1, "main", "List", res = "ok", NoValue)
         /\ CASE res = "ok" ->
                   /\ \E n \in 0 .. MaxMachineSets : items' = Set(items, r, n)
                   /\ Stdout(r, <<Info("There are %d Machinesets in the namespace")>>)
                   /\ Goto(r, "rangeMachineSets")
              [] res = "NotFound" ->
                   /\ Stdout(r, <<Error("No Machinesets found in namespace")>>)
                   /\ Exit(r, 0)
                   /\ UNCHANGED items
              [] res = "error" ->
                   /\ Stdout(r, <<Error("panic: err.Error()")>>)
                   /\ Exit(r, 2)
                   /\ UNCHANGED items
    /\ UNCHANGED <<prog, cluster, watchVars, replica, scale, sd, idx>>

\* One iteration of `for _, ms := range machineSetList.Items`.
PatchMachineSet(r) ==
    /\ pc[r] = "rangeMachineSets"
    /\ idx[r] < items[r]
    /\ Enter(r)
    /\ \E ok \in BOOLEAN :
         /\ Issue(r, ninv[r] + 1, "main", "Patch", ok, IntegerPatch(Uint32(GoInt(0, 2))))
         /\ IF ok
            THEN /\ Stdout(r, <<Info("%+v"), Info("Updated scale for Machine Set")>>)
                 /\ idx' = Set(idx, r, idx[r] + 1)
                 /\ UNCHANGED <<pc, exitCode>>
            ELSE /\ Stdout(r, <<Info("%+v"),
                               Error("panic: [x] Err Updating Scale for MachineSet")>>)
                 /\ Exit(r, 2)
                 /\ UNCHANGED idx
    /\ UNCHANGED <<prog, cluster, watchVars, replica, scale, sd, items>>

\* Every listed MachineSet is patched: main returns.
RangeMachineSetsDone(r) ==
    /\ pc[r] = "rangeMachineSets"
    /\ idx[r] = items[r]
    /\ Exit(r, 0)
    /\ UNCHANGED <<prog, out, reqs, ninv, cluster, watchVars, callVars>>

\* ----------------------------------------------------------- specification

NoCluster == [exists |-> FALSE, replicas |-> 0, image |-> ""]

Programs == {"watcher", "deployments", "deploymentconfigs", "machinesets"}

\* A function called on its own, with any arguments.
Calls == {"call ScaleDeployment", "call ScaleDeploymentConfig"}

\* Arguments `replica` of ScaleDeployment.
ReplicaArgs == -2 .. MaxReplicas

\* Arguments `scale` of ScaleDeploymentConfig, around 0, 2^31 and 2^32.
ScaleArgs ==
    { GoInt(0, 0), GoInt(0, 1), GoInt(0, 2), GoInt(0, 65535), GoInt(1, 0),
      GoInt(32767, 65535), GoInt(32768, 0), GoInt(65535, 65535),
      GoInt(65536, 0), GoInt(65536, 1), GoInt(98304, 7),
      GoInt(-1, 65535), GoInt(-1, 65534), GoInt(-32768, 0),
      GoInt(-65536, 0), GoInt(-65537, 65535) }

\* Where a run that executes p starts.
StartLabel(p) ==
    CASE p \in Programs -> "UserHomeDir"
      [] p = "call ScaleDeployment" -> "ScaleDeployment"
      [] p = "call ScaleDeploymentConfig" -> "ScaleDeploymentConfig"
      [] OTHER -> "exited"

\* The clusters a run that executes p may start against.
StartClusters(p) ==
    CASE p = "call ScaleDeployment" ->
              [exists : BOOLEAN, replicas : 0 .. MaxReplicas, image : {HttpdImage}]
      [] p = "call ScaleDeploymentConfig" ->
              [exists : BOOLEAN, replicas : {GoInt(0, 1)}, image : {HttpdImage}]
      [] OTHER -> {NoCluster}

\* main passes 1 to ScaleDeployment and to ScaleDeploymentConfig.
StartReplicas(p) == IF p = "call ScaleDeployment" THEN ReplicaArgs ELSE {1}
StartScales(p) == IF p = "call ScaleDeploymentConfig" THEN ScaleArgs ELSE {GoInt(0, 1)}

Two(a, b) == [r \in Runs |-> IF r = 1 THEN a ELSE b]

\* The states in which run 1 is about to execute p1 and run 2 p2.
InitRuns(p1, p2) ==
    /\ prog = Two(p1, p2)
    /\ pc = Two(StartLabel(p1), StartLabel(p2))
    /\ exitCode = Two(Nil, Nil)
    /\ out = Two(<<>>, <<>>)
    /\ reqs = Two(<<>>, <<>>)
    /\ ninv = Two(0, 0)
    /\ \E c1 \in StartClusters(p1), c2 \in StartClusters(p2) : cluster = Two(c1, c2)
    /\ chan = Two(<<>>, <<>>)
    /\ closed = Two(FALSE, FALSE)
    /\ emitted = Two(0, 0)
    /\ consumed = Two(0, 0)
    /\ stream = Two(<<>>, <<>>)
    /\ event = Two(NoEvent, NoEvent)
    /\ lines = Two(<<>>, <<>>)
    /\ \E a1 \in StartReplicas(p1), a2 \in StartReplicas(p2) : replica = Two(a1, a2)
    /\ \E s1 \in StartScales(p1), s2 \in StartScales(p2) : scale = Two(s1, s2)
    /\ sd = Two(0, 0)
    /\ items = Two(0, 0)
    /\ idx = Two(0, 0)

\* One process: run 1 executes any program or call, run 2 never starts.
Init == \E p \in Programs \cup Calls : InitRuns(p, "idle")

\* Two watcher processes, each on its own stream.
InitPair == InitRuns("watcher", "watcher")

\* The two watcher processes share nothing, so the pairs of their states do not
\* depend on the schedule: run 2 is started when run 1 has ended.
Scheduled(r) == r = 2 => pc[1] = "exited"

NextWatcher ==
    \E r \in Runs :
        \/ Scheduled(r) /\ UserHomeDir(r)
        \/ Scheduled(r) /\ BuildConfigFromFlags(r)
        \/ Scheduled(r) /\ NewForConfig(r)
        \/ Scheduled(r) /\ Watch(r)
        \/ Scheduled(r) /\ Emit(r)
        \/ Scheduled(r) /\ Close(r)
        \/ Scheduled(r) /\ RangeNext(r)
        \/ Scheduled(r) /\ RangeDone(r)

Next ==
    \E r \in Runs :
        \/ UserHomeDir(r)
        \/ BuildConfigFromFlags(r)
        \/ NewForConfig(r)
        \/ Watch(r)
        \/ Emit(r)
        \/ Close(r)
        \/ RangeNext(r)
        \/ RangeDone(r)
        \/ CreateDeployment(r)
        \/ GetDeployment(r)
        \/ ListDeployment(r)
        \/ UpdateDeployment(r)
        \/ ScaleDeployment(r)
        \/ UpdateScale(r)
        \/ DeleteDeployment(r)
        \/ CreateDeploymentConfig(r)
        \/ ListDeploymentConfigs(r)
        \/ UpdateDeploymentConfigImage(r)
        \/ ScaleDeploymentConfig(r)
        \/ DeleteDeploymentConfig(r)
        \/ ListMachineSets(r)
        \/ PatchMachineSet(r)
        \/ RangeMachineSetsDone(r)

Spec == Init /\ [][Next]_vars

\* Two watcher runs side by side.
SpecPair == InitPair /\ [][NextWatcher]_vars

\* The consumer loop is scheduled whenever it can step; the producer need not act.
FairSpec ==
    Spec /\ \A r \in Runs : WF_vars(RangeNext(r)) /\ WF_vars(RangeDone(r))

\* ================================================================== claims

Last(s) == s[Len(s)]

\* The watch of run r was established: the loop has been entered.
InLoop(r) ==
    /\ prog[r] = "watcher"
    /\ reqs[r] /= <<>>
    /\ reqs[r][1].ok

\* The container statuses of pod that are waiting with reason CrashLoopBackOff.
CrashLooping(pod) ==
    { i \in DOMAIN pod.containerStatuses :
        /\ Len(pod.containerStatuses[i].state.waiting) = 1
        /\ pod.containerStatuses[i].state.waiting[1].reason = "CrashLoopBackOff" }

\* The last n lines run r printed.
Tail_n(r, n) == SubSeq(out[r], Len(out[r]) - n + 1, Len(out[r]))

\* C1: for an event that carries a Pod, the loop prints one line per container
\* status that is waiting with reason CrashLoopBackOff, none when there is none,
\* and each line carries the pod's name, namespace and phase.
C1_LinePerCrashLoopingContainer ==
    \A r \in Runs :
        (InLoop(r) /\ consumed[r] > 0 /\ IsPod(event[r].object)) =>
            /\ Len(lines[r]) = Cardinality(CrashLooping(event[r].object))
            /\ \A i \in DOMAIN lines[r] :
                   /\ lines[r][i][2] = event[r].object.name
                   /\ lines[r][i][4] = event[r].object.namespace
                   /\ lines[r][i][6] = event[r].object.phase
            /\ Len(out[r]) >= Len(lines[r])
            /\ Tail_n(r, Len(lines[r])) = lines[r]

\* C1 witness: a pod with three containers, two of them crash-looping, has been
\* handled and two lines were printed for it.
C1_Witness ==
    /\ InLoop(1)
    /\ consumed[1] = 1
    /\ event[1].object.name = "db-0"
    /\ Len(event[1].object.containerStatuses) = 3
    /\ Len(lines[1]) = 2
    /\ Len(out[1]) = 4

PodsOnly(s) == SelectSeq(s, LAMBDA e : IsPod(e.object))

\* C2: an event that carries no Pod prints nothing, raises no error and does not
\* change what is printed for the other events: two runs whose streams agree once
\* the events without a Pod are dropped have printed the same lines, and neither
\* has ended with an error.
C2_NonPodEventsIgnored ==
    \A a \in Runs : \A b \in Runs :
        (InLoop(a) /\ InLoop(b) /\ PodsOnly(stream[a]) = PodsOnly(stream[b])) =>
            /\ out[a] = out[b]
            /\ exitCode[a] \in {Nil, Ptr(0)}
            /\ \A i \in DOMAIN out[a] : ~IsErrorLine(out[a][i])
            /\ (~IsPod(event[a].object) /\ consumed[a] > 0) => lines[a] = <<>>
            /\ consumed[a] = Len(stream[a])

\* C2 witness: run 1 received an event without a Pod and then a crash-looping pod,
\* run 2 only the pod, and both printed the pod's line.
C2_Witness ==
    /\ InLoop(1) /\ InLoop(2)
    /\ Len(stream[1]) = 2
    /\ ~IsPod(stream[1][1].object)
    /\ stream[2] = <<stream[1][2]>>
    /\ lines[1] /= <<>>
    /\ out[1] = out[2]

\* C5: the lines printed for an event depend on its content alone: two runs, with
\* whatever streams before, whose last events carry the same object printed
\* the same lines for them.
C5_FilterStateless ==
    \A a \in Runs : \A b \in Runs :
        (InLoop(a) /\ InLoop(b) /\ consumed[a] > 0 /\ consumed[b] > 0
           /\ event[a].object = event[b].object) =>
            lines[a] = lines[b]

\* C5 witness: the same crash-looping pod arrives first in run 1 and, under another
\* event type, after an earlier report of the same pod in run 2.
C5_Witness ==
    /\ InLoop(1) /\ InLoop(2)
    /\ consumed[1] = 1 /\ consumed[2] = 2
    /\ event[1].object = event[2].object
    /\ event[1].type /= event[2].type
    /\ stream[2][1].object = event[2].object
    /\ Len(lines[2]) = 1
    /\ Len(out[2]) > Len(out[1])

\* C3: the loop receives every event the producer sends; when the producer closes
\* the stream the loop ends, with status 0, no error line and no second Watch,
\* having handled exactly the events sent; and it never ends while the stream
\* is open.
C3_LoopRunsUntilStreamClosed ==
    /\ [](\A r \in Runs :
            (InLoop(r) /\ pc[r] = "exited") =>
                /\ closed[r]
                /\ chan[r] = <<>>
                /\ consumed[r] = emitted[r]
                /\ exitCode[r] = Ptr(0)
                /\ Len(reqs[r]) = 1
                /\ \A i \in DOMAIN out[r] : ~IsErrorLine(out[r][i]))
    /\ \A r \in Runs :
         \A n \in 0 .. MaxEvents + 1 :
            (InLoop(r) /\ closed[r] /\ emitted[r] = n)
                ~> (pc[r] = "exited" /\ consumed[r] = n)
    /\ \A r \in Runs :
         \A n \in 1 .. MaxEvents + 1 :
            (InLoop(r) /\ emitted[r] = n) ~> (consumed[r] >= n)

\* C3 witness: the producer sent two events and closed, and the loop has ended
\* after handling both.
C3_Witness ==
    /\ InLoop(1)
    /\ pc[1] = "exited"
    /\ closed[1]
    /\ emitted[1] = 2
    /\ consumed[1] = 2

\* ---------------------------------------------------------------- failures

\* Run r executes a whole program (not a function called on its own).
IsProgram(r) == prog[r] \in Programs

\* Resolving the home directory, loading the credentials or constructing the client
\* failed: the process ended before its first request.
SetupFailed(r) == IsProgram(r) /\ pc[r] = "exited" /\ reqs[r] = <<>>

\* The last request of run r failed.
RequestFailed(r) == reqs[r] /= <<>> /\ ~Last(reqs[r]).ok

\* A line the error path prints.
IsErrorOutput(l) == l[1] \in {"error", "fatal"}

\* C4 (as claimed): after any setup or request failure the process has ended with
\* a non-zero status and has printed an error message.
C4_FailureExitsNonZero ==
    \A r \in Runs :
        (IsProgram(r) /\ (SetupFailed(r) \/ RequestFailed(r))) =>
            /\ pc[r] = "exited"
            /\ exitCode[r] /= Nil
            /\ exitCode[r] /= Ptr(0)
            /\ \E i \in DOMAIN out[r] : IsErrorOutput(out[r][i])

\* -------------------------------------------------------------- operations

\* The requests run r issued in its k-th operation.
RequestsOf(r, k) == SelectSeq(reqs[r], LAMBDA q : q.inv = k)

\* C6 (as claimed): every operation issues exactly one API request.
C6_OneRequestPerOperation ==
    \A r \in Runs :
        \A k \in 1 .. ninv[r] : Len(RequestsOf(r, k)) = 1

\* C6 (amended): every operation but ScaleDeployment issues exactly one API request;
\* ScaleDeployment issues GetScale and then at most one UpdateScale, the second
\* only after the first succeeded.
C6_OneRequestPerOperationButScale ==
    \A r \in Runs :
        \A k \in 1 .. ninv[r] :
            LET qs == RequestsOf(r, k) IN
            /\ Len(qs) >= 1
            /\ qs[1].fn /= "ScaleDeployment" => Len(qs) = 1
            /\ qs[1].fn = "ScaleDeployment" =>
                   /\ Len(qs) <= 2
                   /\ qs[1].op = "GetScale"
                   /\ Len(qs) = 2 => (qs[1].ok /\ qs[2].op = "UpdateScale")

\* C6 witness: ScaleDeployment has returned after its two requests.
C6_Witness ==
    /\ prog[1] = "call ScaleDeployment"
    /\ pc[1] = "returned"
    /\ ninv[1] = 1
    /\ Len(RequestsOf(1, 1)) = 2

\* C7: no request follows a failed one, and a failed request ends the process.
C7_NoRetry ==
    \A r \in Runs :
        /\ \A i \in DOMAIN reqs[r] : ~reqs[r][i].ok => i = Len(reqs[r])
        /\ RequestFailed(r) => (pc[r] = "exited" /\ exitCode[r] /= Nil)

\* C7 witness: the third request of the Deployment program failed and the process
\* has ended.
C7_Witness ==
    /\ prog[1] = "deployments"
    /\ Len(reqs[1]) = 3
    /\ ~reqs[1][3].ok
    /\ pc[1] = "exited"

\* The order of the steps of each program.
Steps(p) ==
    IF p = "deployments"
    THEN <<"CreateDeployment", "GetDeployment", "ListDeployment", "UpdateDeployment",
           "ScaleDeployment", "DeleteDeployment">>
    ELSE <<"CreateDeploymentConfig", "ListDeploymentConfigs",
           "UpdateDeploymentConfigImage", "ScaleDeploymentConfig",
           "DeleteDeploymentConfig">>

\* C8: the Deployment and DeploymentConfig programs run their steps in the fixed
\* order, each only after every earlier one succeeded, and a failure after a
\* successful create leaves the created resource in the cluster.
C8_StepsInOrderNoCleanup ==
    \A r \in Runs :
        prog[r] \in {"deployments", "deploymentconfigs"} =>
            /\ ninv[r] <= Len(Steps(prog[r]))
            /\ \A i \in DOMAIN reqs[r] :
                   /\ reqs[r][i].fn = Steps(prog[r])[reqs[r][i].inv]
                   /\ i > 1 => reqs[r][i].inv \in {reqs[r][i - 1].inv, reqs[r][i - 1].inv + 1}
                   /\ i > 1 => reqs[r][i - 1].ok
                   /\ reqs[r][i].op = "Delete" =>
                          \A j \in 1 .. i - 1 : reqs[r][j].ok
            /\ (reqs[r] /= <<>> => reqs[r][1].inv = 1)
            /\ (pc[r] = "exited" /\ Len(reqs[r]) > 1 /\ reqs[r][1].ok
                  /\ RequestFailed(r)) => cluster[r].exists

\* C8 witness: the Deployment program ended on a failed GetScale, its fifth
\* request, and the deployment it created is still there.
C8_Witness ==
    /\ prog[1] = "deployments"
    /\ pc[1] = "exited"
    /\ Len(reqs[1]) = 5
    /\ reqs[1][5].op = "GetScale"
    /\ ~reqs[1][5].ok
    /\ cluster[1].exists

\* ---------------------------------------------------------------- scaling

\* The requests op of ScaleDeployment in run r; a GetScale request records the
\* replica count of the cluster when it was issued.
ScaleRequests(r, op) ==
    SelectSeq(reqs[r], LAMBDA q : q.fn = "ScaleDeployment" /\ q.op = op)

\* ScaleDeployment has been called in run r and is not waiting on a request.
ScaleDeploymentCalled(r) ==
    /\ prog[r] \in {"deployments", "call ScaleDeployment"}
    /\ ScaleRequests(r, "GetScale") /= <<>>

\* C9: ScaleDeployment issues UpdateScale exactly when GetScale succeeded and the
\* requested count is non-negative and differs from the count GetScale read; it
\* then sends the requested count; otherwise the count in the cluster is left as
\* it was.
C9_UpdateScaleIffChange ==
    \A r \in Runs :
        ScaleDeploymentCalled(r) =>
            LET get == ScaleRequests(r, "GetScale")[1]
                upd == ScaleRequests(r, "UpdateScale")
                wanted == get.ok /\ replica[r] >= 0 /\ replica[r] /= get.value
            IN /\ (upd /= <<>> \/ pc[r] = "UpdateScale") <=> wanted
               /\ Len(upd) <= 1
               /\ upd /= <<>> => upd[1].value = replica[r]
               /\ (upd /= <<>> /\ upd[1].ok) => cluster[r].replicas = replica[r]
               /\ (upd = <<>> \/ ~upd[1].ok) => cluster[r].replicas = get.value

\* C9 witness: ScaleDeployment was called with 2 on a deployment of 0 replicas and
\* its UpdateScale went through.
C9_Witness ==
    /\ prog[1] = "call ScaleDeployment"
    /\ replica[1] = 2
    /\ Len(reqs[1]) = 2
    /\ reqs[1][1].value = 0
    /\ reqs[1][2].op = "UpdateScale"
    /\ reqs[1][2].ok
    /\ cluster[1].replicas = 2

\* x is below zero.
Negative(x) == x[1] < 0

\* 0 <= x < 2^32.
InUint32(x) == 0 <= x[1] /\ x[1] < Base /\ 0 <= x[2] /\ x[2] < Base

\* x and y differ by a multiple of 2^32.
Congruent32(x, y) == x[2] = y[2] /\ (x[1] - y[1]) % Base = 0

\* C10: ScaleDeploymentConfig always sends a patch, whose value is within uint32:
\* scale itself when 0 <= scale < 2^32, and for a negative scale the value
\* congruent to it modulo 2^32 (4294967295 for -1).
C10_ScalePatchValue ==
    \A r \in Runs :
        (prog[r] \in {"deploymentconfigs", "call ScaleDeploymentConfig"}
           /\ (pc[r] = "returned" \/ (reqs[r] /= <<>> /\ Last(reqs[r]).fn = "ScaleDeploymentConfig"))) =>
            LET qs == SelectSeq(reqs[r], LAMBDA q : q.fn = "ScaleDeploymentConfig") IN
            /\ Len(qs) = 1
            /\ qs[1].value.op = "replace"
            /\ qs[1].value.path = "/spec/replicas"
            /\ InUint32(qs[1].value.value)
            /\ InUint32(scale[r]) => qs[1].value.value = scale[r]
            /\ Negative(scale[r]) => Congruent32(qs[1].value.value, scale[r])
            /\ scale[r] = GoInt(-1, 65535) => qs[1].value.value = GoInt(65535, 65535)

\* C10 witness: ScaleDeploymentConfig was called with -1 and the patch that went
\* out carries 4294967295.
C10_Witness ==
    /\ prog[1] = "call ScaleDeploymentConfig"
    /\ scale[1] = GoInt(-1, 65535)
    /\ pc[1] = "returned"
    /\ Len(reqs[1]) = 1
    /\ reqs[1][1].ok
    /\ reqs[1][1].value.value = GoInt(65535, 65535)

====
